---- MODULE Spec2Model ----
(***************************************************************************)
(* Model of the document object-graph engine of pdf_bind (src/src/main.rs, *)
(* src/src/process_pages.rs): merging documents (append_doc), deleting     *)
(* pages (delete_page, remove_blank_pages), blank detection                *)
(* (page_is_blank, draws_something), watermark stamping, margin fitting    *)
(* (apply_inner_margin, fit_with_anchor) and the run of make_pdf.          *)
(*                                                                         *)
(* A document is a record [objects, root, max_id]: `objects` maps object   *)
(* numbers to objects (lopdf's BTreeMap<ObjectId, Object>), `root` is the  *)
(* trailer's /Root reference (0 when absent) and `max_id` is lopdf's       *)
(* Document::max_id.  Every object is a record with the dictionary keys    *)
(* the program reads or writes; `tag` is an auxiliary label that names the *)
(* object independently of its (renumbered) identifier.                    *)
(***************************************************************************)
EXTENDS Integers, Sequences, FiniteSets, TLC

VARIABLES doc, op, pre, arg, res, nops, verdict, pc, run, svg_i, out, fit

vars == <<doc, op, pre, arg, res, nops, verdict, pc, run, svg_i, out, fit>>

\* the variables of the run of make_pdf
runvars == <<pc, run, svg_i, out>>

(* ------------------------------ bounds -------------------------------- *)

\* number of mutating operations applied in one behaviour
MaxOps == 2

\* the merge is not applied once the document has this many pages
MaxPages == 5

\* the longest content program of a page drawn for blank detection
MaxProgLen == 2

(* --------------------------- object values ---------------------------- *)

\* a dictionary of resource categories: name -> object number
EmptyDict == [X |-> <<>>, F |-> <<>>, G |-> <<>>]

\* Option<Dictionary>
None == [some |-> FALSE, d |-> EmptyDict]

Some(d) == [some |-> TRUE, d |-> d]

\* the value of a /Resources key: absent, a direct dictionary or a reference
NoRes == [kind |-> "none", d |-> EmptyDict, ref |-> 0]

ResDict(d) == [kind |-> "dict", d |-> d, ref |-> 0]

ResRef(id) == [kind |-> "ref", d |-> EmptyDict, ref |-> id]

\* the value of a /Contents key: absent, one reference or an array of them
NoContents == [kind |-> "none", ids |-> <<>>]

ContentsRef(id) == [kind |-> "ref", ids |-> <<id>>]

ContentsArray(ids) == [kind |-> "array", ids |-> ids]

Obj0 ==
  [Type |-> "Dict", Pages |-> 0, Kids |-> <<>>, Count |-> 0, Parent |-> 0,
   MediaBox |-> <<>>, CropBox |-> <<>>, TrimBox |-> <<>>, Contents |-> NoContents,
   Resources |-> NoRes, D |-> EmptyDict, Subtype |-> "", BBox |-> <<>>,
   ops |-> <<>>, M |-> <<>>, bad |-> FALSE, tag |-> 0]

CatalogObj(pages, tag) == [Obj0 EXCEPT !.Type = "Catalog", !.Pages = pages, !.tag = tag]

PagesObj(parent, kids, count, resources, box, tag) ==
  [Obj0 EXCEPT !.Type = "Pages", !.Parent = parent, !.Kids = kids, !.Count = count,
               !.Resources = resources, !.MediaBox = box, !.tag = tag]

PageObj(parent, contents, resources, box, tag) ==
  [Obj0 EXCEPT !.Type = "Page", !.Parent = parent, !.Contents = contents,
               !.Resources = resources, !.MediaBox = box, !.tag = tag]

StreamObj(ops, tag) == [Obj0 EXCEPT !.Type = "Stream", !.ops = ops, !.tag = tag]

BadStreamObj(tag) == [Obj0 EXCEPT !.Type = "Stream", !.bad = TRUE, !.tag = tag]

FormObj(ops, resources, tag) ==
  [Obj0 EXCEPT !.Type = "Stream", !.Subtype = "Form", !.ops = ops,
               !.Resources = resources, !.tag = tag]

ImageObj(tag) == [Obj0 EXCEPT !.Type = "Stream", !.Subtype = "Image", !.tag = tag]

DictObj(d, tag) == [Obj0 EXCEPT !.D = d, !.tag = tag]

\* content operators: <<operator, name operand>>
Op(name) == <<name, "">>

Do(name) == <<"Do", name>>

Range(f) == {f[x] : x \in DOMAIN f}

(* ------------------------- references of an object -------------------- *)

DictRefs(d) == Range(d.X) \cup Range(d.F) \cup Range(d.G)

\* every Object::Reference held by an object (lopdf traverse_object)
RefSet(o) ==
  ({o.Pages, o.Parent} \ {0}) \cup Range(o.Kids) \cup Range(o.Contents.ids)
    \cup (IF o.Resources.kind = "ref" THEN {o.Resources.ref} ELSE {})
    \cup (IF o.Resources.kind = "dict" THEN DictRefs(o.Resources.d) ELSE {})
    \cup DictRefs(o.D)

\* the renumbering closure: `if replace.contains_key(id) { *id = replace[id] }`
Rep(f, x) == IF x \in DOMAIN f THEN f[x] ELSE x

MapDict(d, f) ==
  [X |-> [n \in DOMAIN d.X |-> Rep(f, d.X[n])],
   F |-> [n \in DOMAIN d.F |-> Rep(f, d.F[n])],
   G |-> [n \in DOMAIN d.G |-> Rep(f, d.G[n])]]

MapRefs(o, f) ==
  [o EXCEPT !.Pages = IF @ = 0 THEN 0 ELSE Rep(f, @),
            !.Parent = IF @ = 0 THEN 0 ELSE Rep(f, @),
            !.Kids = [i \in DOMAIN @ |-> Rep(f, @[i])],
            !.Contents = [@ EXCEPT !.ids = [i \in DOMAIN @ |-> Rep(f, @[i])]],
            !.Resources = [@ EXCEPT !.ref = IF @ = 0 THEN 0 ELSE Rep(f, @),
                                    !.d = MapDict(@, f)],
            !.D = MapDict(@, f)]

(* ------------------------- lopdf Document helpers --------------------- *)

RECURSIVE Closure(_, _, _)
\* the objects lopdf's traverse_objects visits from the set S of references,
\* the action rewriting each reference by f before it is followed
Closure(objs, f, S) ==
  LET next == S \cup UNION {{Rep(f, r) : r \in RefSet(objs[x])} : x \in S \cap DOMAIN objs}
  IN IF next = S THEN S ELSE Closure(objs, f, next)

\* Document::traverse_objects(|_| {}): the references reachable from the trailer
Reachable(d) ==
  IF d.root = 0 THEN {} ELSE Closure(d.objects, <<>>, {d.root})

\* Document::renumber_objects_with(starting_id)
renumber_objects_with(d, start) ==
  LET ids == DOMAIN d.objects
      replace == [id \in ids |-> start + Cardinality({j \in ids : j < id})]
      moved == [n \in {replace[id] : id \in ids} |->
                  d.objects[CHOOSE id \in ids : replace[id] = n]]
      seen == IF d.root = 0 THEN {} ELSE Closure(moved, replace, {Rep(replace, d.root)})
  IN [objects |-> [n \in DOMAIN moved |->
                     IF n \in seen THEN MapRefs(moved[n], replace) ELSE moved[n]],
      root |-> IF d.root = 0 THEN 0 ELSE Rep(replace, d.root),
      max_id |-> start + Cardinality(ids) - 1]

\* Document::renumber_objects()
renumber_objects(d) == renumber_objects_with(d, 1)

\* Document::prune_objects()
prune_objects(d) ==
  LET refs == Reachable(d)
  IN [d EXCEPT !.objects = [n \in DOMAIN d.objects \cap refs |-> d.objects[n]]]

\* Document::catalog(): the object the trailer's /Root names, 0 on error
catalog(d) ==
  IF d.root # 0 /\ d.root \in DOMAIN d.objects /\ d.objects[d.root].Type # "Stream"
  THEN d.root ELSE 0

RECURSIVE WalkKids(_, _)
\* lopdf PageTreeIter: the leaves below a Kids array, left to right
WalkKids(d, kids) ==
  IF kids = <<>> THEN <<>>
  ELSE LET k == Head(kids)
           here == IF k \in DOMAIN d.objects
                   THEN IF d.objects[k].Type = "Page" THEN <<k>>
                        ELSE IF d.objects[k].Type = "Pages"
                             THEN WalkKids(d, d.objects[k].Kids)
                             ELSE <<>>
                   ELSE <<>>
       IN here \o WalkKids(d, Tail(kids))

\* Document::get_pages().values(): the page ids in page order
get_pages(d) ==
  LET c == catalog(d)
  IN IF c = 0 \/ d.objects[c].Pages = 0 \/ d.objects[c].Pages \notin DOMAIN d.objects
        \/ d.objects[d.objects[c].Pages].Type = "Stream"
     THEN <<>>
     ELSE WalkKids(d, d.objects[d.objects[c].Pages].Kids)

(* ------------------------------ main.rs ------------------------------- *)

\* pages_root_id: the catalog's /Pages reference, 0 for Err
pages_root_id(d) ==
  IF catalog(d) = 0 THEN 0 ELSE d.objects[catalog(d)].Pages

\* right-biased union of two object maps (BTreeMap::extend)
Extend(a, b) ==
  [n \in DOMAIN a \cup DOMAIN b |-> IF n \in DOMAIN b THEN b[n] ELSE a[n]]

ShiftAddition_offByOne(base, add) == renumber_objects_with(add, base.max_id)

\* `add.renumber_objects_with(base.max_id + 1)`
ShiftAddition(base, add) == renumber_objects_with(add, base.max_id + 1)

AppendKids_front(kids, add_page_ids) == add_page_ids \o kids

\* `kids.push(Object::Reference(*pid))` for every page of the addition
AppendKids(kids, add_page_ids) == kids \o add_page_ids

Reparent_keep(o, base_pages_id) == o

\* `dict.set("Parent", base_pages_id)`
Reparent(o, base_pages_id) == [o EXCEPT !.Parent = base_pages_id]

\* the merged document before the final renumbering (main.rs 84-103)
Splice(base, add) ==
  LET base_pages_id == pages_root_id(base)
      base_page_count == Len(get_pages(base))
      add1 == ShiftAddition(base, add)
      add_page_ids == get_pages(add1)
      pageset == Range(add_page_ids)
      add2 == [n \in DOMAIN add1.objects |->
                 IF n \in pageset THEN Reparent(add1.objects[n], base_pages_id)
                 ELSE add1.objects[n]]
      objs == Extend(base.objects, add2)
  IN [base EXCEPT !.objects =
        [objs EXCEPT ![base_pages_id] =
           [@ EXCEPT !.Kids = AppendKids(@, add_page_ids),
                     !.Count = base_page_count + Len(add_page_ids)]]]

\* whether append_doc returns Err
append_doc_fails(base, add) ==
  LET base_pages_id == pages_root_id(base)
      objs == Extend(base.objects, ShiftAddition(base, add).objects)
  IN \/ base_pages_id = 0
     \/ base_pages_id \notin DOMAIN objs
     \/ objs[base_pages_id].Type # "Pages"

\* append_doc(base, add) when it returns Ok
append_doc(base, add) == renumber_objects(Splice(base, add))

\* the box <<0, 0, w_pt, h_pt>> of every page of the run (--width, --height); the
\* small page keeps the products of the fitting code within TLC's integers
PageBox == <<0, 0, 6, 6>>

\* blank_page_doc(w_pt, h_pt)
blank_page_doc ==
  [objects |-> (1 :> PagesObj(0, <<2>>, 1, NoRes, <<>>, 901)) @@
               (2 :> [PageObj(1, ContentsRef(3), ResDict(EmptyDict), PageBox, 902)
                        EXCEPT !.CropBox = PageBox]) @@
               (3 :> StreamObj(<<>>, 903)) @@
               (4 :> CatalogObj(1, 904)),
   root |-> 4, max_id |-> 4]

(* -------------------------- process_pages.rs -------------------------- *)

\* obj_as_dict_owned: a direct dictionary, or the dictionary a reference names
obj_as_dict_owned(v, d) ==
  IF v.kind = "dict" THEN Some(v.d)
  ELSE IF v.kind = "ref" /\ v.ref \in DOMAIN d.objects /\ d.objects[v.ref].Type # "Stream"
       THEN Some(d.objects[v.ref].D)
       ELSE None

\* whether doc.get_object(id)?.as_stream()? succeeds
IsStream(d, id) == id \in DOMAIN d.objects /\ d.objects[id].Type = "Stream"

\* whether doc.get_object(id).ok()?.as_dict().ok()? succeeds
IsDict(d, id) == id \in DOMAIN d.objects /\ d.objects[id].Type # "Stream"

\* page_content_streams: Err, or the streams the page's /Contents lists
page_content_streams(d, page_id) ==
  IF ~IsDict(d, page_id) THEN [err |-> TRUE, ids |-> <<>>]
  ELSE LET ids == d.objects[page_id].Contents.ids
       IN IF \E i \in DOMAIN ids : ~IsStream(d, ids[i])
          THEN [err |-> TRUE, ids |-> <<>>]
          ELSE [err |-> FALSE, ids |-> ids]

RECURSIVE InheritedResources(_, _)
\* the loop of effective_resources: the nearest ancestor's /Resources
InheritedResources(d, cur) ==
  LET pid == d.objects[cur].Parent
  IN IF pid = 0 \/ ~IsDict(d, pid) THEN None
     ELSE IF d.objects[pid].Resources.kind # "none"
          THEN obj_as_dict_owned(d.objects[pid].Resources, d)
          ELSE InheritedResources(d, pid)

effective_resources_ownOnly(d, page_id) ==
  IF ~IsDict(d, page_id) \/ d.objects[page_id].Resources.kind = "none" THEN None
  ELSE obj_as_dict_owned(d.objects[page_id].Resources, d)

\* effective_resources
effective_resources(d, page_id) ==
  IF ~IsDict(d, page_id) THEN None
  ELSE IF d.objects[page_id].Resources.kind # "none"
       THEN obj_as_dict_owned(d.objects[page_id].Resources, d)
       ELSE InheritedResources(d, page_id)

decode_swallow(o) == [err |-> FALSE, ops |-> <<>>]

\* Content::decode(&stream.content): Err on an undecodable payload
decode(o) == IF o.bad THEN [err |-> TRUE, ops |-> <<>>] ELSE [err |-> FALSE, ops |-> o.ops]

\* the operators draws_something matches: text, path painting, shading, inline image
MarkingOperators ==
  {"Tj", "TJ", "'", "\"", "S", "s", "f", "F", "f*", "B", "B*", "b", "b*", "sh", "BI"}

IsMarking_construction(name) == name \in MarkingOperators \cup {"re", "m", "l"}

IsMarking(name) == name \in MarkingOperators

FormResources_callSite(xobj, resources, d) == resources

\* the resources a Form is evaluated with: its own /Resources, else the caller's
FormResources(xobj, resources, d) ==
  IF xobj.Resources.kind # "none" THEN obj_as_dict_owned(xobj.Resources, d)
  ELSE resources

RECURSIVE draws_something(_, _, _, _)
\* draws_something over the decoded operations `ops` with the resources in
\* effect.  The result is "true", "false" or "err".  The code keeps no visited
\* set and no depth bound: `active` is only the model's record of the calls in
\* progress, and re-entering one of them is the recursion that never returns,
\* reported as "overflow".
draws_something(d, ops, resources, active) ==
  IF ops = <<>> THEN "false"
  ELSE
    LET o == Head(ops)
        rest == Tail(ops)
    IN IF IsMarking(o[1]) THEN "true"
       ELSE IF o[1] = "Do" /\ o[2] # "" /\ resources.some /\ o[2] \in DOMAIN resources.d.X
       THEN LET oid == resources.d.X[o[2]]
            IN IF ~IsStream(d, oid) THEN "err"
               ELSE LET xobj == d.objects[oid]
                    IN IF xobj.Subtype = "Image" THEN "true"
                       ELSE IF xobj.Subtype = "Form"
                       THEN IF decode(xobj).err THEN "err"
                            ELSE LET frm_res == FormResources(xobj, resources, d)
                                     call == <<oid, frm_res>>
                                     inner == IF call \in active THEN "overflow"
                                              ELSE draws_something(d, decode(xobj).ops,
                                                                   frm_res, active \cup {call})
                                 IN IF inner = "false"
                                    THEN draws_something(d, rest, resources, active)
                                    ELSE inner
                       ELSE draws_something(d, rest, resources, active)
       ELSE draws_something(d, rest, resources, active)

RECURSIVE BlankStreams(_, _, _)
\* the loop of page_is_blank over the page's streams
BlankStreams(d, ids, resources) ==
  IF ids = <<>> THEN "true"
  ELSE IF decode(d.objects[Head(ids)]).err THEN "err"
       ELSE LET r == draws_something(d, decode(d.objects[Head(ids)]).ops, resources, {})
            IN IF r = "true" THEN "false"
               ELSE IF r = "false" THEN BlankStreams(d, Tail(ids), resources)
                    ELSE r

\* page_is_blank: "true", "false", "err", or "overflow" when it never returns
page_is_blank(d, page_id) ==
  LET streams == page_content_streams(d, page_id)
  IN IF streams.err THEN "err"
     ELSE IF streams.ids = <<>> THEN "true"
          ELSE BlankStreams(d, streams.ids, effective_resources(d, page_id))

RemoveAll(s, x) == SelectSeq(s, LAMBDA e : e # x)

NextAncestor_stop(o) == 0

\* `cur = match pdict.get(b"Parent") { Ok(Object::Reference(pp)) => Some(*pp), _ => None }`
NextAncestor(o) == o.Parent

RECURSIVE DecrementCounts(_, _)
\* step 3 of delete_page: /Count of every ancestor from `pid` upwards
DecrementCounts(objs, pid) ==
  IF pid \notin DOMAIN objs \/ objs[pid].Type = "Stream"
  THEN [err |-> TRUE, objects |-> objs]
  ELSE LET o == objs[pid]
           objs1 == IF o.Type = "Pages"
                    THEN [objs EXCEPT ![pid] = [@ EXCEPT !.Count = @ - 1]]
                    ELSE objs
       IN IF NextAncestor(o) # 0 THEN DecrementCounts(objs1, NextAncestor(o))
          ELSE [err |-> FALSE, objects |-> objs1]

NoParent_afterRemoval(d, page_id) ==
  [err |-> TRUE,
   doc |-> [d EXCEPT !.objects =
              [n \in DOMAIN d.objects \
                    ({page_id} \cup (IF page_id \in DOMAIN d.objects
                                     THEN Range(d.objects[page_id].Contents.ids) ELSE {}))
                 |-> d.objects[n]]]]

\* step 1 of delete_page: `_ => return Err("page has no Parent".into())`, and the
\* `?` on a missing page or Parent key, before anything is changed
NoParent(d, page_id) == [err |-> TRUE, doc |-> d]

\* delete_page: [err, doc]; on Err the document keeps what was already changed
delete_page(d, page_id) ==
  IF ~IsDict(d, page_id) \/ d.objects[page_id].Parent = 0
  THEN NoParent(d, page_id)
  ELSE
    LET parent_id == d.objects[page_id].Parent
    IN IF ~IsDict(d, parent_id) THEN [err |-> TRUE, doc |-> d]
       ELSE
         LET objs1 == [d.objects EXCEPT ![parent_id] =
                          [@ EXCEPT !.Kids = RemoveAll(@, page_id)]]
             dec == DecrementCounts(objs1, parent_id)
         IN IF dec.err THEN [err |-> TRUE, doc |-> [d EXCEPT !.objects = dec.objects]]
            ELSE
              LET content_ids == Range(dec.objects[page_id].Contents.ids)
                  gone == content_ids \cup {page_id}
              IN [err |-> FALSE,
                  doc |-> [d EXCEPT !.objects =
                             [n \in DOMAIN dec.objects \ gone |-> dec.objects[n]]]]

Reverse(s) == [i \in 1..Len(s) |-> s[Len(s) + 1 - i]]

RECURSIVE DeleteBlank(_, _)
\* the loop of remove_blank_pages over the page ids still to visit
DeleteBlank(d, pids) ==
  IF pids = <<>> THEN [res |-> "ok", doc |-> d]
  ELSE LET v == page_is_blank(d, Head(pids))
       IN IF v = "err" THEN [res |-> "err", doc |-> d]
          ELSE IF v = "overflow" THEN [res |-> "overflow", doc |-> d]
          ELSE IF v = "true"
               THEN LET del == delete_page(d, Head(pids))
                    IN IF del.err THEN [res |-> "err", doc |-> del.doc]
                       ELSE DeleteBlank(del.doc, Tail(pids))
               ELSE DeleteBlank(d, Tail(pids))

\* remove_blank_pages: [res, doc]
remove_blank_pages(d) ==
  LET r == DeleteBlank(d, Reverse(get_pages(d)))
  IN IF r.res # "ok" THEN r
     ELSE [res |-> "ok", doc |-> prune_objects(renumber_objects(r.doc))]

\* effective_mediabox: the nearest /MediaBox on the Parent chain, <<>> for None
RECURSIVE effective_mediabox(_, _)
effective_mediabox(d, id) ==
  IF ~IsDict(d, id) THEN <<>>
  ELSE IF Len(d.objects[id].MediaBox) = 4 THEN d.objects[id].MediaBox
       ELSE IF d.objects[id].Parent # 0 THEN effective_mediabox(d, d.objects[id].Parent)
            ELSE <<>>

\* a tag no object of the document carries
FreshTag(d) ==
  LET tags == {d.objects[n].tag : n \in DOMAIN d.objects}
  IN IF tags = {} THEN 1 ELSE 1 + CHOOSE t \in tags : \A u \in tags : u <= t

\* doc.new_object_id() followed by doc.objects.insert(id, o)
InsertNew(d, o) ==
  [d EXCEPT !.objects = ((d.max_id + 1) :> [o EXCEPT !.tag = FreshTag(d)]) @@ @,
            !.max_id = d.max_id + 1]

RECURSIVE ConcatOps(_, _)
\* the concatenation of the streams' payloads, in order
ConcatOps(d, ids) ==
  IF ids = <<>> THEN <<>> ELSE d.objects[Head(ids)].ops \o ConcatOps(d, Tail(ids))

\* the program that draws the wrapped old content: q /OLD_FORM Do Q
DrawOldProgram == <<Op("q"), Do("OLD_FORM"), Op("Q")>>

\* the watermark program of stamp_watermarks (process_pages.rs 388-400)
StampProgram ==
  <<Op("q"), <<"gs", "GS_ARC">>, Op("rg"), Op("RG"), Op("cm"), Op("BT"),
    <<"Tf", "F_ARC">>, Op("Td"), Op("Tr"), Op("w"), Op("Tj"), Op("ET"),
    Op("cm"), Op("w"), Op("m"), Op("l"), Op("S"), Op("Q")>>

\* the page's own /Resources as stamp_watermarks copies it (306-311, 339-344)
OwnResources(d, pid) ==
  LET r == d.objects[pid].Resources
  IN IF r.kind = "none" THEN EmptyDict
     ELSE IF obj_as_dict_owned(r, d).some THEN obj_as_dict_owned(r, d).d ELSE EmptyDict

\* the body of the page loop of stamp_watermarks for one page: [err, doc]
StampPage(d, pid, font_id, gs_id) ==
  LET box == effective_mediabox(d, pid)
      old_streams == page_content_streams(d, pid)
  IN IF box = <<>> \/ old_streams.err THEN [err |-> TRUE, doc |-> d]
     ELSE
       LET has_old == old_streams.ids # <<>>
           eff == effective_resources(d, pid)
           form == [Obj0 EXCEPT !.Type = "Stream", !.Subtype = "Form", !.BBox = box,
                                !.ops = ConcatOps(d, old_streams.ids),
                                !.bad = \E i \in DOMAIN old_streams.ids :
                                           d.objects[old_streams.ids[i]].bad,
                                !.Resources = IF eff.some THEN ResDict(eff.d) ELSE NoRes]
           d1 == IF has_old THEN InsertNew(d, form) ELSE d
           form_id == d1.max_id
           own == OwnResources(d1, pid)
           resources ==
             [X |-> IF has_old THEN ("OLD_FORM" :> form_id) @@ own.X ELSE own.X,
              F |-> ("F_ARC" :> font_id) @@ own.F,
              G |-> ("GS_ARC" :> gs_id) @@ own.G]
           d2 == [d1 EXCEPT !.objects[pid].Resources = ResDict(resources)]
           d3 == IF has_old THEN InsertNew(d2, StreamObj(DrawOldProgram, 0)) ELSE d2
           draw_old_id == d3.max_id
           d4 == InsertNew(d3, StreamObj(StampProgram, 0))
           wm_id == d4.max_id
       IN [err |-> FALSE,
           doc |-> [d4 EXCEPT !.objects[pid].Contents =
                      IF has_old THEN ContentsArray(<<draw_old_id, wm_id>>)
                      ELSE ContentsRef(wm_id)]]

RECURSIVE StampPages(_, _, _, _)
StampPages(d, pids, font_id, gs_id) ==
  IF pids = <<>> THEN [res |-> "ok", doc |-> d]
  ELSE LET r == StampPage(d, Head(pids), font_id, gs_id)
       IN IF r.err THEN [res |-> "err", doc |-> r.doc]
          ELSE StampPages(r.doc, Tail(pids), font_id, gs_id)

\* stamp_watermarks: [res, doc]
stamp_watermarks(d) ==
  LET d1 == InsertNew(d, DictObj(EmptyDict, 0))
      font_id == d1.max_id
      d2 == InsertNew(d1, DictObj(EmptyDict, 0))
      gs_id == d2.max_id
  IN StampPages(d2, get_pages(d2), font_id, gs_id)

(* ------------------------- f64 values as fractions -------------------- *)

\* The f64 values of the fitting code are modelled as exact fractions
\* [n, d] in lowest terms with d > 0; rounding is not modelled.

Abs(x) == IF x < 0 THEN -x ELSE x

RECURSIVE GCD(_, _)
GCD(a, b) == IF b = 0 THEN a ELSE GCD(b, a % b)

Frac(n, d) ==
  LET g == GCD(Abs(n), Abs(d))
      sgn == IF d < 0 THEN -1 ELSE 1
  IN [n |-> sgn * (n \div g), d |-> sgn * (d \div g)]

FInt(x) == [n |-> x, d |-> 1]

FAdd(a, b) == Frac((a.n * b.d) + (b.n * a.d), a.d * b.d)

FSub(a, b) == Frac((a.n * b.d) - (b.n * a.d), a.d * b.d)

FMul(a, b) == Frac(a.n * b.n, a.d * b.d)

FDiv(a, b) == Frac(a.n * b.d, a.d * b.n)

FLe(a, b) == a.n * b.d <= b.n * a.d

FLt(a, b) == a.n * b.d < b.n * a.d

\* f64::min, f64::max
FMin(a, b) == IF FLe(a, b) THEN a ELSE b

FMax(a, b) == IF FLe(a, b) THEN b ELSE a

\* f64::INFINITY as a scale cap, or a finite cap
Infinity == [inf |-> TRUE, v |-> FInt(0)]

Cap(v) == [inf |-> FALSE, v |-> v]

(* --------------------------- fit_with_anchor -------------------------- *)

anchor_value_noHalf(start, end, a) ==
  IF a = "Start" THEN start ELSE IF a = "Center" THEN FAdd(start, end) ELSE end

\* anchor_value
anchor_value(start, end, a) ==
  IF a = "Start" THEN start
  ELSE IF a = "Center" THEN FMul(Frac(1, 2), FAdd(start, end))
       ELSE end

\* `let s0 = match mode { Contain => (sw/uw).min(sh/uh), Cover => (sw/uw).max(sh/uh) }`
FitScale(sw, uw, sh, uh, mode) ==
  IF mode = "Contain" THEN FMin(FDiv(sw, uw), FDiv(sh, uh))
  ELSE FMax(FDiv(sw, uw), FDiv(sh, uh))

\* fit_with_anchor over the boxes U = <<ux0, uy0, ux1, uy1>> and S: [s, tx, ty]
fit_with_anchor(U, S, ax, ay, mode, s_max) ==
  LET uw == FSub(U[3], U[1])
      uh == FSub(U[4], U[2])
      sw == FSub(S[3], S[1])
      sh == FSub(S[4], S[2])
      s0 == FitScale(sw, uw, sh, uh, mode)
      s == IF s_max.inf THEN s0 ELSE FMin(s0, s_max.v)
      u_px == anchor_value(U[1], U[3], ax)
      u_py == anchor_value(U[2], U[4], ay)
      s_px == anchor_value(S[1], S[3], ax)
      s_py == anchor_value(S[2], S[4], ay)
  IN [s |-> s, tx |-> FSub(s_px, FMul(s, u_px)), ty |-> FSub(s_py, FMul(s, u_py))]

(* -------------------------- apply_inner_margin ------------------------ *)

\* binding_params.rs: a Book, lengths in inches
BookOf(width, height, gutter, margin_inner) ==
  [width |-> width, height |-> height, gutter |-> gutter, margin_inner |-> margin_inner]

\* Book::get_safe_area_size
get_safe_area_size(book) ==
  [width |-> FSub(book.width, FAdd(book.gutter, book.margin_inner)),
   height |-> FSub(book.height, FMul(FInt(2), book.margin_inner))]

\* Book::get_safe_area(is_left), scaled from inches to points (x72)
SafeArea(book, is_left) ==
  LET safe == get_safe_area_size(book)
      x == IF is_left THEN book.margin_inner ELSE book.gutter
  IN [x |-> FMul(x, FInt(72)), y |-> FMul(book.margin_inner, FInt(72)),
      width |-> FMul(safe.width, FInt(72)), height |-> FMul(safe.height, FInt(72))]

\* `let epsilon = 0.001`
epsilon == Frac(1, 1000)

\* `if (i + 1) % 2 == 1 { &safe_right } else { &safe_left }`, i counted from 0
SafeOf(book, idx) == SafeArea(book, (idx + 1) % 2 # 1)

\* the S box: the safe rectangle moved inwards by epsilon
SafeBox(book, idx) ==
  LET safe == SafeOf(book, idx)
  IN <<FAdd(safe.x, epsilon), FAdd(safe.y, epsilon),
       FSub(FAdd(safe.x, safe.width), epsilon),
       FSub(FAdd(safe.y, safe.height), epsilon)>>

\* a box of integers as a box of f64 (as_f64)
AsBox(b) == [j \in DOMAIN b |-> FInt(b[j])]

\* effective_page_box: CropBox, else TrimBox, else the effective MediaBox
effective_page_box(d, page_id) ==
  IF ~IsDict(d, page_id) THEN <<>>
  ELSE IF Len(d.objects[page_id].CropBox) = 4 THEN d.objects[page_id].CropBox
       ELSE IF Len(d.objects[page_id].TrimBox) = 4 THEN d.objects[page_id].TrimBox
            ELSE effective_mediabox(d, page_id)

\* page_ink_bbox: for now the page box
page_ink_bbox(d, page_id) == effective_page_box(d, page_id)

\* `(x1 - x0).max(0.0) * (y1 - y0).max(0.0)`
ClampedArea(B) ==
  FMul(FMax(FSub(B[3], B[1]), FInt(0)), FMax(FSub(B[4], B[2]), FInt(0)))

IsSparse_inverted(U, S) ==
  LET u_area == ClampedArea(U)
      s_area == ClampedArea(S)
      area_ratio == IF FLt(FInt(0), s_area) THEN FDiv(u_area, s_area) ELSE FInt(1)
  IN ~FLt(area_ratio, Frac(12, 100))

\* `let is_sparse = area_ratio < 0.12`
IsSparse(U, S) ==
  LET u_area == ClampedArea(U)
      s_area == ClampedArea(S)
      area_ratio == IF FLt(FInt(0), s_area) THEN FDiv(u_area, s_area) ELSE FInt(1)
  IN FLt(area_ratio, Frac(12, 100))

\* steps 2-3 to 2-5: the transform of the page with ink box U and safe box S
PageTransform(U, S) ==
  IF IsSparse(U, S)
  THEN fit_with_anchor(U, S, "Center", "Start", "Contain", Cap(FInt(1)))
  ELSE fit_with_anchor(U, S, "Center", "Center", "Contain", Infinity)

\* the program `q  s 0 0 s tx ty cm  /CNT Do  Q`; the operands of cm are kept in
\* the stream's M
DrawProgram == <<Op("q"), Op("cm"), Do("CNT"), Op("Q")>>

WrapResources_effective(d, pid) ==
  LET eff == effective_resources(d, pid)
  IN IF eff.some THEN ResDict(eff.d) ELSE NoRes

\* the /Resources of the Form CNT: the page's own /Resources when it names a
\* dictionary (process_pages.rs 595-600)
WrapResources(d, pid) ==
  LET r == d.objects[pid].Resources
  IN IF r.kind # "none" /\ obj_as_dict_owned(r, d).some
     THEN ResDict(obj_as_dict_owned(r, d).d) ELSE NoRes

\* the Form CNT: the old content streams joined, /BBox the page box
WrapForm(d, pid, box, ids) ==
  [Obj0 EXCEPT !.Type = "Stream", !.Subtype = "Form", !.BBox = box,
               !.ops = ConcatOps(d, ids),
               !.bad = \E j \in DOMAIN ids : d.objects[ids[j]].bad,
               !.Resources = WrapResources(d, pid)]

\* the new content stream with the cm operands of the transform t
DrawStream(t) == [StreamObj(DrawProgram, 0) EXCEPT !.M = <<t.s, t.tx, t.ty>>]

\* the page's /Resources and /Contents replaced: only CNT, only the draw stream
Rewire(d, pid, form_id, draw_id) ==
  [d EXCEPT !.objects[pid].Resources = ResDict([EmptyDict EXCEPT !.X = "CNT" :> form_id]),
            !.objects[pid].Contents = ContentsRef(draw_id)]

\* add the draw stream to the document that already holds CNT as its newest object
WithDraw(d, pid, t) == Rewire(InsertNew(d, DrawStream(t)), pid, d.max_id, d.max_id + 1)

\* the page loop's body once the page box and the content streams are known
WrapPage(d, pid, idx, book, box, old_streams) ==
  IF box = <<>> \/ old_streams.err THEN [err |-> TRUE, doc |-> d]
  ELSE IF old_streams.ids = <<>> THEN [err |-> FALSE, doc |-> d]
  ELSE [err |-> FALSE,
        doc |-> WithDraw(InsertNew(d, WrapForm(d, pid, box, old_streams.ids)), pid,
                         PageTransform(AsBox(page_ink_bbox(d, pid)), SafeBox(book, idx)))]

\* the body of the page loop of apply_inner_margin for the idx-th page: [err, doc]
MarginPage(d, pid, idx, book) ==
  WrapPage(d, pid, idx, book, effective_page_box(d, pid), page_content_streams(d, pid))

RECURSIVE MarginPages(_, _, _, _)
\* the `?` of the loop body: stop at an error, else go on with the next page
MarginNext(r, pids, idx, book) ==
  IF r.err THEN [res |-> "err", doc |-> r.doc]
  ELSE MarginPages(r.doc, Tail(pids), idx + 1, book)

\* the loop `for (i, pid) in page_ids.iter().enumerate()`
MarginPages(d, pids, idx, book) ==
  IF pids = <<>> THEN [res |-> "ok", doc |-> d]
  ELSE MarginNext(MarginPage(d, Head(pids), idx, book), pids, idx, book)

\* the end of apply_inner_margin: renumber_objects, prune_objects
MarginFinish(r) ==
  IF r.res # "ok" THEN r
  ELSE [res |-> "ok", doc |-> prune_objects(renumber_objects(r.doc))]

\* apply_inner_margin: [res, doc]
apply_inner_margin(d, book) == MarginFinish(MarginPages(d, get_pages(d), 0, book))

\* a book whose safe rectangles are smaller than the page (8pt x 8pt, gutter 2pt,
\* margin 1pt) and one whose safe rectangles dwarf it (20pt x 20pt)
Books ==
  {BookOf(Frac(8, 72), Frac(8, 72), Frac(2, 72), Frac(1, 72)),
   BookOf(Frac(20, 72), Frac(20, 72), Frac(2, 72), Frac(1, 72))}

(* ----------------------------- documents ------------------------------ *)

FontDict(names) == [X |-> <<>>, F |-> names, G |-> <<>>]

XDict(names) == [X |-> names, F |-> <<>>, G |-> <<>>]

\* two pages on a flat tree; the blank first page and the second page both
\* list stream 5; font 7 is used by the first page only, font 8 by both
DocShared ==
  [objects |->
     (1 :> CatalogObj(2, 101)) @@
     (2 :> PagesObj(0, <<3, 4>>, 2, NoRes, PageBox, 102)) @@
     (3 :> PageObj(2, ContentsRef(5), ResDict(FontDict(("F1" :> 7) @@ ("F2" :> 8))), <<>>, 103)) @@
     (4 :> PageObj(2, ContentsArray(<<5, 6>>), ResDict(FontDict("F2" :> 8)), PageBox, 104)) @@
     (5 :> StreamObj(<<Op("q"), Op("Q")>>, 105)) @@
     (6 :> StreamObj(<<Op("BT"), <<"Tf", "F2">>, Op("Tj"), Op("ET")>>, 106)) @@
     (7 :> DictObj(EmptyDict, 107)) @@
     (8 :> DictObj(EmptyDict, 108)),
   root |-> 1, max_id |-> 8]

\* three pages on a nested tree; pages 4 and 5 inherit the resources of node 3;
\* page 4 draws an image through a Form, page 5 has no content, page 6 has an
\* empty stream and a private graphics state held through a referenced table
DocNested ==
  [objects |->
     (1 :> CatalogObj(2, 201)) @@
     (2 :> PagesObj(0, <<3, 6>>, 3, NoRes, PageBox, 202)) @@
     (3 :> PagesObj(2, <<4, 5>>, 2, ResDict(XDict(("Fm" :> 9) @@ ("Im" :> 10))), <<>>, 203)) @@
     (4 :> PageObj(3, ContentsRef(7), NoRes, <<>>, 204)) @@
     (5 :> PageObj(3, NoContents, NoRes, <<>>, 205)) @@
     (6 :> PageObj(2, ContentsRef(8), ResRef(11), <<>>, 206)) @@
     (7 :> StreamObj(<<Op("q"), Do("Fm"), Op("Q")>>, 207)) @@
     (8 :> StreamObj(<<>>, 208)) @@
     (9 :> FormObj(<<Op("cm"), Do("Im")>>, NoRes, 209)) @@
     (10 :> ImageObj(210)) @@
     (11 :> DictObj([X |-> <<>>, F |-> <<>>, G |-> "G1" :> 12], 211)) @@
     (12 :> DictObj(EmptyDict, 212)),
   root |-> 1, max_id |-> 13]

\* one page whose Form invokes itself
DocCyclic ==
  [objects |->
     (1 :> CatalogObj(2, 301)) @@
     (2 :> PagesObj(0, <<3>>, 1, ResDict(XDict("A" :> 5)), PageBox, 302)) @@
     (3 :> PageObj(2, ContentsRef(4), NoRes, <<>>, 303)) @@
     (4 :> StreamObj(<<Do("A")>>, 304)) @@
     (5 :> FormObj(<<Op("q"), Do("A"), Op("Q")>>, NoRes, 305)),
   root |-> 1, max_id |-> 5]

\* the one-page document svg_to_page_pdf_bytes builds (main.rs 181-227)
DocSvg ==
  [objects |->
     (1 :> CatalogObj(2, 401)) @@
     (2 :> PagesObj(0, <<3>>, 1, NoRes, <<>>, 402)) @@
     (3 :> PageObj(2, ContentsRef(4), ResDict(XDict("S1" :> 5)), PageBox, 403)) @@
     (4 :> StreamObj(<<Op("cm"), Do("S1")>>, 404)) @@
     (5 :> FormObj(<<Op("re"), Op("f")>>, ResDict(EmptyDict), 405)),
   root |-> 1, max_id |-> 5]

\* a document whose trailer has no /Root
DocNoRoot ==
  [objects |-> (1 :> StreamObj(<<Op("Tj")>>, 501)) @@ (2 :> DictObj(EmptyDict, 502)),
   root |-> 0, max_id |-> 2]

\* a document whose catalog has no /Pages
DocNoPages ==
  [objects |-> (1 :> CatalogObj(0, 601)) @@ (2 :> DictObj(EmptyDict, 602)),
   root |-> 1, max_id |-> 2]

\* three pages under a root that names the Form A: the stream of the first
\* page does not decode, the second page invokes A, whose payload does not
\* decode, the third page has an empty stream
DocBad ==
  [objects |->
     (1 :> CatalogObj(2, 701)) @@
     (2 :> PagesObj(0, <<3, 4, 5>>, 3, ResDict(XDict("A" :> 8)), PageBox, 702)) @@
     (3 :> PageObj(2, ContentsRef(6), NoRes, <<>>, 703)) @@
     (4 :> PageObj(2, ContentsRef(7), NoRes, <<>>, 704)) @@
     (5 :> PageObj(2, ContentsRef(9), NoRes, <<>>, 705)) @@
     (6 :> BadStreamObj(706)) @@
     (7 :> StreamObj(<<Op("q"), Do("A"), Op("Q")>>, 707)) @@
     (8 :> [FormObj(<<>>, NoRes, 708) EXCEPT !.bad = TRUE]) @@
     (9 :> StreamObj(<<>>, 709)),
   root |-> 1, max_id |-> 9]

\* two pages: the first draws text and lists streams 5 and 6, the blank second
\* page lists stream 5 only
DocTail ==
  [objects |->
     (1 :> CatalogObj(2, 801)) @@
     (2 :> PagesObj(0, <<3, 4>>, 2, NoRes, PageBox, 802)) @@
     (3 :> [PageObj(2, ContentsArray(<<5, 6>>), ResDict(FontDict("F1" :> 7)), <<>>, 803)
              EXCEPT !.CropBox = <<1, 1, 3, 2>>]) @@
     (4 :> PageObj(2, ContentsRef(5), ResDict(EmptyDict), <<>>, 804)) @@
     (5 :> StreamObj(<<Op("q"), Op("Q")>>, 805)) @@
     (6 :> StreamObj(<<Op("BT"), <<"Tf", "F1">>, Op("Tj"), Op("ET")>>, 806)) @@
     (7 :> DictObj(EmptyDict, 807)),
   root |-> 1, max_id |-> 7]

\* two pages in the Kids of the root; the first page has no /Parent
DocNoParent ==
  [objects |->
     (1 :> CatalogObj(2, 851)) @@
     (2 :> PagesObj(0, <<3, 4>>, 2, NoRes, PageBox, 852)) @@
     (3 :> PageObj(0, ContentsRef(5), NoRes, <<>>, 853)) @@
     (4 :> PageObj(2, ContentsRef(6), NoRes, <<>>, 854)) @@
     (5 :> StreamObj(<<Op("BT"), Op("Tj"), Op("ET")>>, 855)) @@
     (6 :> StreamObj(<<>>, 856)),
   root |-> 1, max_id |-> 6]

\* the documents a run starts from (the front matter)
BaseDocs ==
  {DocShared, DocNested, DocCyclic, DocSvg, DocNoRoot, DocNoPages, DocBad, DocTail,
   DocNoParent}

\* the documents a run appends
Additions == {blank_page_doc, DocSvg, DocNested, DocShared, DocNoRoot, DocNoPages}

NoBook == BookOf(FInt(0), FInt(0), FInt(0), FInt(0))

NoArg == [add |-> DocNoRoot, page |-> 0, book |-> NoBook]

\* the addition with its tags moved past those of the base: the objects of a
\* document that is loaded or built for a merge are new objects.  The shift is
\* a multiple of 1000, so tag % 1000 still names the object within its source
Retag(base, add) ==
  [add EXCEPT !.objects =
     [n \in DOMAIN add.objects |->
        [add.objects[n] EXCEPT !.tag = @ + 1000 * (1 + (FreshTag(base) \div 1000))]]]

(* ------------------------------ the run ------------------------------- *)

\* no run of make_pdf in progress, nothing saved
NoOut == [saved |-> FALSE, doc |-> DocNoRoot]

NoRun ==
  /\ pc = "-"
  /\ run = [arc |-> FALSE, make_even |-> FALSE, front |-> DocNoRoot, k |-> 0,
            back |-> DocNoRoot]
  /\ svg_i = 0
  /\ out = NoOut

\* no call of fit_with_anchor recorded
NoFit ==
  [state |-> "none", U |-> <<>>, S |-> <<>>, ax |-> "Center", ay |-> "Center",
   mode |-> "Contain", s_max |-> Infinity,
   r |-> [s |-> FInt(0), tx |-> FInt(0), ty |-> FInt(0)]]

Init ==
  /\ doc \in BaseDocs
  /\ pre = doc
  /\ op = "init"
  /\ arg = NoArg
  /\ res = "ok"
  /\ nops = 0
  /\ verdict = [page |-> 0, v |-> "none"]
  /\ NoRun
  /\ fit = NoFit

CanStep == res = "ok" /\ nops < MaxOps

\* merged = append_doc(merged, add)?
AppendDoc(addition) ==
  /\ CanStep
  /\ Len(get_pages(doc)) + Len(get_pages(addition)) <= MaxPages
  /\ pre' = doc
  /\ op' = "append_doc"
  /\ LET add == Retag(doc, addition)
     IN /\ arg' = [NoArg EXCEPT !.add = add]
        /\ IF append_doc_fails(doc, add)
           THEN res' = "err" /\ doc' = doc
           ELSE res' = "ok" /\ doc' = append_doc(doc, add)
  /\ nops' = nops + 1
  /\ UNCHANGED <<verdict, runvars, fit>>

\* delete_page(doc, pid)?
DeletePage(pid) ==
  /\ CanStep
  /\ pre' = doc
  /\ op' = "delete_page"
  /\ arg' = [NoArg EXCEPT !.page = pid]
  /\ LET r == delete_page(doc, pid)
     IN /\ res' = IF r.err THEN "err" ELSE "ok"
        /\ doc' = r.doc
  /\ nops' = nops + 1
  /\ UNCHANGED <<verdict, runvars, fit>>

\* remove_blank_pages(doc)?
RemoveBlankPages ==
  /\ CanStep
  /\ pre' = doc
  /\ op' = "remove_blank_pages"
  /\ arg' = NoArg
  /\ LET r == remove_blank_pages(doc)
     IN /\ res' = r.res
        /\ doc' = r.doc
  /\ nops' = nops + 1
  /\ UNCHANGED <<verdict, runvars, fit>>

\* stamp_watermarks(doc)?
StampWatermarks ==
  /\ CanStep
  /\ pre' = doc
  /\ op' = "stamp_watermarks"
  /\ arg' = NoArg
  /\ LET r == stamp_watermarks(doc)
     IN /\ res' = r.res
        /\ doc' = r.doc
  /\ nops' = nops + 1
  /\ UNCHANGED <<verdict, runvars, fit>>

\* apply_inner_margin(doc, book)?
ApplyInnerMargin(book) ==
  /\ CanStep
  /\ pre' = doc
  /\ op' = "apply_inner_margin"
  /\ arg' = [NoArg EXCEPT !.book = book]
  /\ LET r == apply_inner_margin(doc, book)
     IN /\ res' = r.res
        /\ doc' = r.doc
  /\ nops' = nops + 1
  /\ UNCHANGED <<verdict, runvars, fit>>

Next ==
  \/ \E add \in Additions : AppendDoc(add)
  \/ \E pid \in Range(get_pages(doc)) : DeletePage(pid)
  \/ RemoveBlankPages
  \/ StampWatermarks
  \/ \E book \in Books : ApplyInnerMargin(book)

Spec == Init /\ [][Next]_vars

(* -------------------------- the run of make_pdf ----------------------- *)

\* the most vector sources (./materials/svg/*.svg) of a run
MaxSvg == 2

\* enforce_page_size: MediaBox and CropBox of every page set to the run's box
enforce_page_size(d) ==
  [d EXCEPT !.objects =
     [n \in DOMAIN d.objects |->
        IF n \in Range(get_pages(d))
        THEN [d.objects[n] EXCEPT !.MediaBox = PageBox, !.CropBox = PageBox]
        ELSE d.objects[n]]]

\* the page document of the j-th vector source, in sorted path order
Svg(j) ==
  [DocSvg EXCEPT !.objects =
     [n \in DOMAIN DocSvg.objects |-> [DocSvg.objects[n] EXCEPT !.tag = @ + 10 * j]]]

\* the `?` of append_doc: the base is kept when the merge fails
MergeTagged(d, add) ==
  IF append_doc_fails(d, add) THEN [err |-> TRUE, doc |-> d]
  ELSE [err |-> FALSE, doc |-> append_doc(d, add)]

\* `merged = append_doc(merged, addition)?`: [err, doc]
Merge(d, addition) == MergeTagged(d, Retag(d, addition))

\* `if front_pages % 2 == 1` (main.rs 254-260)
PadFront(d, make_even) ==
  IF make_even /\ Len(get_pages(d)) % 2 = 1 THEN Merge(d, blank_page_doc)
  ELSE [err |-> FALSE, doc |-> d]

InsertBetween_notLast(insert_between, idx, n) == insert_between /\ idx + 1 < n

\* `insert_between && i + 1 <= svg_paths.len()`, i counted from 0
InsertBetween(insert_between, idx, n) == insert_between /\ idx + 1 <= n

\* the spacer blank page after a merged vector page (main.rs 274-277)
Spacer(m, spacer) ==
  IF m.err THEN m ELSE IF spacer THEN Merge(m.doc, blank_page_doc) ELSE m

\* one turn of the loop over the vector sources (main.rs 269-278)
SvgTurn(d, idx, n, insert_between) ==
  Spacer(Merge(d, Svg(idx + 1)), InsertBetween(insert_between, idx, n))

\* the `?` between the two passes of post_process_arc
StampNext(r) == IF r.res # "ok" THEN r ELSE stamp_watermarks(r.doc)

post_process_arc_stampFirst(d) ==
  LET r == stamp_watermarks(d)
  IN IF r.res # "ok" THEN r ELSE remove_blank_pages(r.doc)

\* post_process_arc: remove_blank_pages, then stamp_watermarks (decompress and
\* compress change the encoding of the payloads, not the decoded programs)
post_process_arc(d) == StampNext(remove_blank_pages(d))

\* the back matter: enforce_page_size, append_doc, and enforce_page_size on the
\* whole merged document (main.rs 281-286)
SizeMerged(r) == IF r.err THEN r ELSE [err |-> FALSE, doc |-> enforce_page_size(r.doc)]

MergeBack(d, back) == SizeMerged(Merge(d, enforce_page_size(back)))

\* the front matters and back matters of the runs
Fronts == {DocNested, DocShared, DocSvg, DocBad, DocTail, DocCyclic}

Backs == {DocShared, DocNested, DocBad, DocSvg}

InitMake ==
  /\ run \in [arc : BOOLEAN, make_even : BOOLEAN, front : Fronts, k : 0..MaxSvg,
               back : Backs]
  /\ doc = run.front
  /\ pre = run.front
  /\ op = "load"
  /\ arg = NoArg
  /\ res = "ok"
  /\ nops = 0
  /\ verdict = [page |-> 0, v |-> "none"]
  /\ pc = "front"
  /\ svg_i = 0
  /\ out = NoOut
  /\ fit = NoFit

\* the outcome r = [err, doc] of a step of the run: on an error the run ends
RunStep(r, then) ==
  /\ doc' = r.doc
  /\ res' = IF r.err THEN "err" ELSE "ok"
  /\ pc' = IF r.err THEN "failed" ELSE then

\* enforce_page_size(&mut merged, w_pt, h_pt)? on the loaded front matter
EnforceFront ==
  /\ pc = "front"
  /\ pre' = doc
  /\ doc' = enforce_page_size(doc)
  /\ op' = "enforce_page_size"
  /\ pc' = "even"
  /\ UNCHANGED <<arg, res, nops, verdict, run, svg_i, out, fit>>

\* make-even: one blank page after a front matter of odd length
MakeEven ==
  /\ pc = "even"
  /\ pre' = doc
  /\ RunStep(PadFront(doc, run.make_even), "svg")
  /\ op' = "make_even"
  /\ UNCHANGED <<arg, nops, verdict, run, svg_i, out, fit>>

\* one vector source: its page, then the spacer blank page
SvgPage ==
  /\ pc = "svg"
  /\ svg_i < run.k
  /\ pre' = doc
  /\ RunStep(SvgTurn(doc, svg_i, run.k, ~run.arc), "svg")
  /\ svg_i' = svg_i + 1
  /\ op' = "svg"
  /\ UNCHANGED <<arg, nops, verdict, run, out, fit>>

\* the back matter: sized, merged, and the final enforce_page_size
AppendBack ==
  /\ pc = "svg"
  /\ svg_i = run.k
  /\ pre' = doc
  /\ RunStep(MergeBack(doc, run.back), IF run.arc THEN "post" ELSE "save")
  /\ op' = "back"
  /\ UNCHANGED <<arg, nops, verdict, run, svg_i, out, fit>>

\* `if args.arc { post_process_arc(&mut merged)? }`
PostProcessArc ==
  /\ pc = "post"
  /\ pre' = doc
  /\ LET r == post_process_arc(doc)
     IN /\ doc' = r.doc
        /\ res' = r.res
        /\ pc' = IF r.res = "ok" THEN "save" ELSE "failed"
  /\ op' = "post_process_arc"
  /\ UNCHANGED <<arg, nops, verdict, run, svg_i, out, fit>>

\* merged.save(out)?
Save ==
  /\ pc = "save"
  /\ out' = [saved |-> TRUE, doc |-> doc]
  /\ pc' = "done"
  /\ UNCHANGED <<doc, op, pre, arg, res, nops, verdict, run, svg_i, fit>>

NextMake ==
  \/ EnforceFront
  \/ MakeEven
  \/ SvgPage
  \/ AppendBack
  \/ PostProcessArc
  \/ Save

SpecMake == InitMake /\ [][NextMake]_vars

(* ------------------- blank detection on its own ----------------------- *)

RECURSIVE Programs(_, _)
\* the operator sequences of length at most n over an alphabet
Programs(alphabet, n) ==
  IF n = 0 THEN {<<>>}
  ELSE LET shorter == Programs(alphabet, n - 1)
       IN shorter \cup {Append(q, a) : q \in shorter, a \in alphabet}

\* names -> XObjects: A and B are Forms, I is the image
ImageTable == XDict(("A" :> 6) @@ ("B" :> 7) @@ ("I" :> 8))

\* a table in which I names the Form B and D names no object
FormTable == XDict(("A" :> 6) @@ ("B" :> 7) @@ ("I" :> 7) @@ ("D" :> 9))

\* a one-page document: page 3 under root 2, streams 4 and 5, Forms 6 (A) and
\* 7 (B), image 8
BlankCase(contents, c1, c2, fa, fb, pres, rres, ares) ==
  [objects |->
     (1 :> CatalogObj(2, 1)) @@
     (2 :> PagesObj(0, <<3>>, 1, rres, PageBox, 2)) @@
     (3 :> PageObj(2, contents, pres, <<>>, 3)) @@
     (4 :> StreamObj(c1, 4)) @@
     (5 :> StreamObj(c2, 5)) @@
     (6 :> FormObj(fa, ares, 6)) @@
     (7 :> FormObj(fb, NoRes, 7)) @@
     (8 :> ImageObj(8)),
   root |-> 1, max_id |-> 8]

BlankCases ==
  {BlankCase(contents, c1, c2, fa, fb, pres, rres, ares) :
     contents \in {NoContents, ContentsRef(4), ContentsArray(<<4, 5>>)},
     c1 \in Programs({Op("re"), Op("Tj"), Do("A"), Do("I")}, MaxProgLen),
     c2 \in {<<Op("Q")>>, <<Op("sh")>>},
     fa \in {<<Op("cm")>>, <<Op("f*")>>, <<Do("B")>>, <<Do("I")>>, <<Do("B"), Op("n")>>,
             <<Do("D"), Op("S")>>},
     fb \in {<<>>, <<Do("A")>>, <<Op("b")>>},
     pres \in {NoRes, ResDict(ImageTable), ResDict(EmptyDict)},
     rres \in {NoRes, ResDict(FormTable)},
     ares \in {NoRes, ResDict(ImageTable)}}

InitBlank ==
  /\ doc \in BlankCases \cup BaseDocs \cup {blank_page_doc}
  /\ pre = DocNoRoot
  /\ op = "init"
  /\ arg = NoArg
  /\ res = "ok"
  /\ nops = 0
  /\ verdict = [page |-> 0, v |-> "none"]
  /\ NoRun
  /\ fit = NoFit

\* page_is_blank(doc, pid)
PageIsBlank(pid) ==
  /\ verdict.page = 0
  /\ verdict' = [page |-> pid, v |-> page_is_blank(doc, pid)]
  /\ UNCHANGED <<doc, op, pre, arg, res, nops, runvars, fit>>

NextBlank == \E pid \in Range(get_pages(doc)) : PageIsBlank(pid)

SpecBlank == InitBlank /\ [][NextBlank]_vars

(* ---------------------- fit_with_anchor on its own -------------------- *)

\* the largest coordinate of the boxes fit_with_anchor is applied to
MaxCoord == 3

\* the boxes <<x0, y0, x1, y1>> of positive width and height
Boxes ==
  UNION {{<<FInt(x0), FInt(y0), FInt(x1), FInt(y1)>> :
            x1 \in (x0 + 1)..MaxCoord, y1 \in (y0 + 1)..MaxCoord} :
         x0 \in 0..MaxCoord, y0 \in 0..MaxCoord}

\* <<ax, ay>>
AnchorPairs ==
  {<<"Center", "Center">>, <<"Center", "Start">>, <<"Start", "End">>, <<"End", "Center">>}

InitFit ==
  /\ fit \in {[NoFit EXCEPT !.state = "input", !.U = U, !.S = S, !.ax = a[1], !.ay = a[2],
                           !.mode = mode, !.s_max = s_max] :
                U \in Boxes, S \in Boxes, a \in AnchorPairs, mode \in {"Contain", "Cover"},
                s_max \in {Infinity, Cap(FInt(1))}}
  /\ doc = DocNoRoot
  /\ pre = DocNoRoot
  /\ op = "init"
  /\ arg = NoArg
  /\ res = "ok"
  /\ nops = 0
  /\ verdict = [page |-> 0, v |-> "none"]
  /\ NoRun

\* let (s, tx, ty) = fit_with_anchor(..)
FitWithAnchor ==
  /\ fit.state = "input"
  /\ fit' = [fit EXCEPT !.state = "result",
                        !.r = fit_with_anchor(fit.U, fit.S, fit.ax, fit.ay, fit.mode,
                                              fit.s_max)]
  /\ UNCHANGED <<doc, op, pre, arg, res, nops, verdict, runvars>>

NextFit == FitWithAnchor

SpecFit == InitFit /\ [][NextFit]_vars

(* ------------------------ vocabulary of the claims -------------------- *)

\* the pages of a document, in page order, named by their tags
PageTags(d) == [i \in 1..Len(get_pages(d)) |-> d.objects[get_pages(d)[i]].tag]

TagsOf(d, ids) == {d.objects[n].tag : n \in ids \cap DOMAIN d.objects}

AllTags(d) == TagsOf(d, DOMAIN d.objects)

\* every reference reachable from the trailer resolves
Resolves(d) == Reachable(d) \subseteq DOMAIN d.objects

\* every stored object is reachable from the trailer
NoOrphans(d) == DOMAIN d.objects \subseteq Reachable(d)

HasPagesRoot(d) == pages_root_id(d) # 0

RECURSIVE TreeNodes(_, _)
\* the internal nodes of the page tree at and below node n
TreeNodes(d, n) ==
  IF n \notin DOMAIN d.objects \/ d.objects[n].Type # "Pages" THEN {}
  ELSE {n} \cup UNION {TreeNodes(d, d.objects[n].Kids[i]) : i \in DOMAIN d.objects[n].Kids}

RECURSIVE ChainTop(_, _, _)
\* the object a Parent chain ends at, 0 when it leaves the graph
ChainTop(d, id, fuel) ==
  IF id \notin DOMAIN d.objects \/ fuel = 0 THEN 0
  ELSE IF d.objects[id].Parent = 0 THEN id
       ELSE ChainTop(d, d.objects[id].Parent, fuel - 1)

NoDuplicates(s) == \A i, j \in DOMAIN s : s[i] = s[j] => i = j

\* page-tree well-formedness (spec section 3)
TreeWF(d) ==
  LET r == pages_root_id(d)
      pages == get_pages(d)
  IN /\ r # 0
     /\ r \in DOMAIN d.objects
     /\ d.objects[r].Type = "Pages"
     /\ NoDuplicates(pages)
     /\ \A n \in TreeNodes(d, r) :
          /\ d.objects[n].Count = Len(WalkKids(d, d.objects[n].Kids))
          /\ \A i \in DOMAIN d.objects[n].Kids :
               /\ d.objects[n].Kids[i] \in DOMAIN d.objects
               /\ d.objects[d.objects[n].Kids[i]].Type \in {"Page", "Pages"}
     /\ \A i \in DOMAIN pages :
          /\ ChainTop(d, pages[i], Cardinality(DOMAIN d.objects)) = r
          /\ d.objects[pages[i]].Parent \in DOMAIN d.objects
          /\ \E k \in DOMAIN d.objects[d.objects[pages[i]].Parent].Kids :
               d.objects[d.objects[pages[i]].Parent].Kids[k] = pages[i]

Appended == op = "append_doc" /\ res = "ok"

(* ------------------------------- claims ------------------------------- *)

\* C1: append_doc(A, B) of two documents with a page-tree root returns A's n
\* pages in order followed by B's m pages in order, exactly n+m pages, and the
\* root page-tree node has Count = n+m.
C1_AppendOrderAndCount ==
  (Appended /\ HasPagesRoot(pre) /\ HasPagesRoot(arg.add)) =>
     /\ PageTags(doc) = PageTags(pre) \o PageTags(arg.add)
     /\ Len(get_pages(doc)) = Len(get_pages(pre)) + Len(get_pages(arg.add))
     /\ doc.objects[pages_root_id(doc)].Count
          = Len(get_pages(pre)) + Len(get_pages(arg.add))

\* a nested base of three pages received an addition of two pages
C1_Witness ==
  /\ Appended
  /\ Len(get_pages(pre)) = 3
  /\ Len(get_pages(arg.add)) = 2
  /\ \E n \in TreeNodes(pre, pages_root_id(pre)) : n # pages_root_id(pre)
  /\ Len(get_pages(doc)) = 5

\* C2: after a merge every identifier is unique (the store is dense 1..max_id),
\* no object of the base or of the addition is overwritten or lost, every
\* reference reachable from the root resolves, the addition was shifted to
\* start at base.max_id + 1, and max_id is the largest identifier again.
C2_IdentifierSafe ==
  (Appended /\ Resolves(pre) /\ Resolves(arg.add)) =>
     LET shifted == ShiftAddition(pre, arg.add)
     IN /\ DOMAIN shifted.objects \cap DOMAIN pre.objects = {}
        /\ \A n \in DOMAIN shifted.objects : n > pre.max_id
        /\ (arg.add.objects # <<>>) => (pre.max_id + 1) \in DOMAIN shifted.objects
        /\ Cardinality(DOMAIN doc.objects)
             = Cardinality(DOMAIN pre.objects) + Cardinality(DOMAIN arg.add.objects)
        /\ AllTags(doc) = AllTags(pre) \cup AllTags(arg.add)
        /\ DOMAIN doc.objects = 1..doc.max_id
        /\ Resolves(doc)

\* an addition whose identifiers overlap the base's was merged into a document
\* that is itself the result of a merge
C2_Witness ==
  /\ Appended
  /\ nops = 2
  /\ arg.add = Retag(pre, blank_page_doc)
  /\ DOMAIN arg.add.objects \subseteq DOMAIN pre.objects
  /\ Cardinality(DOMAIN doc.objects) = Cardinality(DOMAIN pre.objects) + 4

\* C3: append_doc returns an error whenever the base or the addition lacks a
\* resolvable page-tree root.
C3_ErrorWithoutRoot ==
  (op = "append_doc" /\ (~HasPagesRoot(pre) \/ ~HasPagesRoot(arg.add))) => res = "err"

\* the leaves below node n of the page tree
Leaves(d, n) == Range(WalkKids(d, d.objects[n].Kids))

Deleted == op = "delete_page" /\ res = "ok"

\* C4: delete_page of page k of a well-formed N-page tree leaves the other
\* N-1 pages in order, removes k from its parent's Kids, decreases the Count of
\* every ancestor of k by exactly 1 and leaves every other Count unchanged.
C4_DeleteCounts ==
  (Deleted /\ TreeWF(pre)) =>
     LET k == arg.page
         r == pages_root_id(pre)
     IN /\ get_pages(doc) = SelectSeq(get_pages(pre), LAMBDA p : p # k)
        /\ \A p \in Range(get_pages(doc)) : doc.objects[p].tag = pre.objects[p].tag
        /\ Len(get_pages(doc)) = Len(get_pages(pre)) - 1
        /\ k \notin Range(doc.objects[pre.objects[k].Parent].Kids)
        /\ \A n \in TreeNodes(pre, r) :
             /\ n \in DOMAIN doc.objects
             /\ doc.objects[n].Count =
                  IF k \in Leaves(pre, n) THEN pre.objects[n].Count - 1
                  ELSE pre.objects[n].Count

\* a page two levels below the root was deleted
C4_Witness ==
  /\ Deleted
  /\ TreeWF(pre)
  /\ pre.objects[arg.page].Parent # pages_root_id(pre)
  /\ doc.objects[pages_root_id(pre)].Count = pre.objects[pages_root_id(pre)].Count - 1

\* the pages remove_blank_pages deleted, as identifiers of the document before
DeletedPages == {p \in Range(get_pages(pre)) : pre.objects[p].tag \notin Range(PageTags(doc))}

\* the document before, with the deleted pages taken out of every Kids list
Unlinked ==
  [pre EXCEPT !.objects =
     [n \in DOMAIN pre.objects |->
        [pre.objects[n] EXCEPT !.Kids = SelectSeq(@, LAMBDA x : x \notin DeletedPages)]]]

\* C5: after remove_blank_pages an object referenced only by deleted pages is
\* absent, an object also referenced by a surviving page is present (a content
\* stream shared with a deleted page included), and no reference dangles.
C5_Reclaiming ==
  (op = "remove_blank_pages" /\ res = "ok" /\ Resolves(pre) /\ TreeWF(pre)) =>
     /\ AllTags(doc) = TagsOf(Unlinked, Reachable(Unlinked))
     /\ Resolves(doc)

\* C6: page-tree well-formedness is kept by append_doc, delete_page and
\* remove_blank_pages: every Count is the number of leaves below the node, every
\* page's Parent chain ends at the root, every page is in the Kids of its
\* Parent, every Kids entry exists.
C6_TreeWellFormed ==
  (/\ op \in {"append_doc", "delete_page", "remove_blank_pages"}
   /\ TreeWF(pre)
   /\ (op = "append_doc" => TreeWF(arg.add))) => TreeWF(doc)

\* pages of a nested addition were merged and have the base's root as Parent
C6_Witness ==
  /\ Appended
  /\ TreeWF(pre)
  /\ arg.add = Retag(pre, DocNested)
  /\ TreeWF(doc)
  /\ \A i \in DOMAIN get_pages(doc) :
        doc.objects[get_pages(doc)[i]].Parent = pages_root_id(doc) \/ i <= Len(get_pages(pre))

\* C7: after append_doc, delete_page and stamp_watermarks the store holds no
\* orphan: every stored object is reachable from the trailer root.
C7_NoOrphanAfterEachStep ==
  (/\ op \in {"append_doc", "delete_page", "stamp_watermarks"}
   /\ res = "ok"
   /\ NoOrphans(pre)
   /\ (op = "append_doc" => NoOrphans(arg.add))) => NoOrphans(doc)

(* ---------------- marks of a page, by the PDF operator classes -------- *)

TextShowing == {"Tj", "TJ", "'", "\""}

PathPainting == {"S", "s", "f", "F", "f*", "B", "B*", "b", "b*"}

MarkOps == TextShowing \cup PathPainting \cup {"sh"} \cup {"BI"}

RECURSIVE NearestResources(_, _)
\* the resource table of the node itself, else of the nearest ancestor with one
NearestResources(d, id) ==
  IF id \notin DOMAIN d.objects THEN None
  ELSE IF d.objects[id].Resources.kind # "none"
       THEN obj_as_dict_owned(d.objects[id].Resources, d)
       ELSE IF d.objects[id].Parent = 0 THEN None
            ELSE NearestResources(d, d.objects[id].Parent)

\* the object a name invokes under a resource table, 0 when it names nothing
Invoked(r, name) ==
  IF r.some /\ name \in DOMAIN r.d.X THEN r.d.X[name] ELSE 0

\* the targets of the invocations of a program under a table
Targets(d, c) ==
  {Invoked(c[2], d.objects[c[1]].ops[i][2]) :
     i \in {j \in DOMAIN d.objects[c[1]].ops : d.objects[c[1]].ops[j][1] = "Do"}} \ {0}

\* the evaluations <<stream, table>> one evaluation invokes
Invocations(d, c) ==
  {<<t, IF d.objects[t].Resources.kind # "none"
        THEN obj_as_dict_owned(d.objects[t].Resources, d) ELSE c[2]>> :
     t \in {u \in Targets(d, c) : IsStream(d, u) /\ d.objects[u].Subtype = "Form"}}

RECURSIVE Evaluations(_, _)
\* every evaluation a set of evaluations leads to, at any nesting depth
Evaluations(d, S) ==
  LET next == S \cup UNION {Invocations(d, c) : c \in S}
  IN IF next = S THEN S ELSE Evaluations(d, next)

\* the evaluations of the page's own content streams
PageEvaluations(d, p) ==
  {<<d.objects[p].Contents.ids[i], NearestResources(d, p)>> :
     i \in {j \in DOMAIN d.objects[p].Contents.ids : IsStream(d, d.objects[p].Contents.ids[j])}}

\* a marking operator, or the invocation of an Image, occurs in the page's
\* streams or in a Form invoked from them at any depth
Marks(d, p) ==
  \E c \in Evaluations(d, PageEvaluations(d, p)) :
     \/ \E i \in DOMAIN d.objects[c[1]].ops : d.objects[c[1]].ops[i][1] \in MarkOps
     \/ \E t \in Targets(d, c) : IsStream(d, t) /\ d.objects[t].Subtype = "Image"

\* every stream decodes, every invoked name resolves to a stream and no Form
\* is invoked from itself
CleanContent(d, p) ==
  /\ ~page_content_streams(d, p).err
  /\ \A c \in Evaluations(d, PageEvaluations(d, p)) :
        /\ ~d.objects[c[1]].bad
        /\ \A t \in Targets(d, c) : IsStream(d, t)
        /\ c \notin Evaluations(d, Invocations(d, c))

Checked == verdict.page # 0

\* C8: page_is_blank returns true for a page with no content stream and for a
\* page whose streams (an empty stream included) hold only operators that are
\* neither marking operators nor invocations.
C8_BlankWhenNothingDrawn ==
  Checked =>
    LET ids == doc.objects[verdict.page].Contents.ids
    IN /\ (ids = <<>>) => verdict.v = "true"
       /\ (\A i \in DOMAIN ids :
              /\ IsStream(doc, ids[i])
              /\ ~doc.objects[ids[i]].bad
              /\ \A j \in DOMAIN doc.objects[ids[i]].ops :
                    doc.objects[ids[i]].ops[j][1] \notin MarkOps \cup {"Do"})
            => verdict.v = "true"

\* a page with two streams of state-setting operators only was judged blank
C8_Witness ==
  /\ Checked
  /\ verdict.v = "true"
  /\ doc.objects[verdict.page].Contents = ContentsArray(<<4, 5>>)
  /\ doc.objects[4].ops = <<Op("re"), Op("re")>>
  /\ doc.objects[5].ops = <<Op("Q")>>

\* C9: page_is_blank never returns true for a page that marks; it returns false
\* whenever the page's content is clean (decodable, resolvable, acyclic).
C9_NoFalseNegative ==
  (Checked /\ Marks(doc, verdict.page)) =>
     /\ verdict.v # "true"
     /\ CleanContent(doc, verdict.page) => verdict.v = "false"

\* the only mark is in Form B, invoked from Form A under A's own table, which
\* the page's stream invokes under the table inherited from the root
C9_Witness ==
  /\ Checked
  /\ verdict.v = "false"
  /\ doc.objects[verdict.page].Contents = ContentsRef(4)
  /\ doc.objects[verdict.page].Resources = NoRes
  /\ doc.objects[4].ops = <<Op("re"), Do("A")>>
  /\ doc.objects[6].ops = <<Do("B"), Op("n")>>
  /\ doc.objects[6].Resources = ResDict(ImageTable)
  /\ doc.objects[7].ops = <<Op("b")>>

\* C10: blank detection returns a result on every graph, also when a Form
\* invokes itself directly or through other Forms.
C10_AlwaysReturns ==
  Checked => verdict.v \in {"true", "false", "err"}

(* ------------------------- claims on the run -------------------------- *)

\* a stream whose payload does not decode is among the streams evaluated for
\* the page: one of its content streams, or a Form invoked from them
HasBadStream(d, p) ==
  \E c \in Evaluations(d, PageEvaluations(d, p)) : d.objects[c[1]].bad

PostProcessed == op = "post_process_arc"

\* the tags, within their source documents, of the pages of a document
SourceTags(d) == [j \in 1..Len(get_pages(d)) |-> PageTags(d)[j] % 1000]

\* C11: when decoding a content stream of a page or of a Form it invokes fails,
\* page_is_blank returns the error, remove_blank_pages propagates it without
\* deleting that page and the run aborts before the document is saved; a page
\* with an undecodable stream is never deleted as blank.
C11_DecodeFailurePropagates ==
  /\ PostProcessed =>
       \A p \in Range(get_pages(pre)) :
          /\ HasBadStream(pre, p) => pre.objects[p].tag \in Range(PageTags(doc))
          /\ (HasBadStream(pre, p) /\ page_is_blank(pre, p) = "err") =>
                /\ res # "ok"
                /\ pc = "failed"
  /\ pc = "failed" => ~out.saved

\* the ARC run over the front matter with undecodable streams: the blank last
\* front page was deleted, then the error stopped the run with nothing saved
C11_Witness ==
  /\ PostProcessed
  /\ run.front = DocBad
  /\ run.back = DocShared
  /\ res = "err"
  /\ pc = "failed"
  /\ ~out.saved
  /\ \E p \in Range(get_pages(pre)) : HasBadStream(pre, p) /\ page_is_blank(pre, p) = "err"
  /\ {703, 704} \subseteq Range(SourceTags(doc))
  /\ 705 \notin Range(SourceTags(doc))

\* C12: delete_page on a page that has no Parent reference returns an error
\* and leaves the graph unchanged: no Kids list, no Count, no content stream
\* and no page object is modified or removed.
C12_NoParentNoChange ==
  (op = "delete_page" /\ pre.objects[arg.page].Parent = 0) =>
     /\ res = "err"
     /\ doc.objects = pre.objects
     /\ doc = pre

\* the first page of the root's Kids, which has no /Parent, was to be deleted
C12_Witness ==
  /\ op = "delete_page"
  /\ arg.page \in Range(get_pages(pre))
  /\ pre.objects[arg.page].Parent = 0
  /\ pre.objects[arg.page].Contents.ids # <<>>
  /\ res = "err"
  /\ get_pages(doc) = get_pages(pre)

RECURSIVE VectorPart(_, _)
\* the tags, within their sources, of the pages of the first n vector sources,
\* each followed by the blank page when spacers are inserted
VectorPart(n, spacers) ==
  IF n = 0 THEN <<>>
  ELSE VectorPart(n - 1, spacers) \o <<403 + 10 * n>> \o (IF spacers THEN <<902>> ELSE <<>>)

\* the merged page sequence: front, padding blank when the front is odd and
\* make_even is set, the vector part, back
MergedOrder(spacers) ==
  PageTags(run.front)
    \o (IF run.make_even /\ Len(get_pages(run.front)) % 2 = 1 THEN <<902>> ELSE <<>>)
    \o VectorPart(run.k, spacers)
    \o PageTags(run.back)

NonBlankTags(d) ==
  LET keep == SelectSeq(get_pages(d), LAMBDA p : page_is_blank(d, p) # "true")
  IN [j \in 1..Len(keep) |-> d.objects[keep[j]].tag]

\* the program of the last content stream of a page
LastProgram(d, p) ==
  LET ids == d.objects[p].Contents.ids
  IN IF ids = <<>> \/ ~IsStream(d, ids[Len(ids)]) THEN <<>>
     ELSE d.objects[ids[Len(ids)]].ops

\* C14: in an ARC run no spacer blank page is inserted between vector pages;
\* post-processing runs after all merging and before serialization, removes
\* every page that is blank at that point, keeps every non-blank page in its
\* relative order, and afterwards every page's content ends with the stamp.
C14_ArcRunPostProcessing ==
  (run.arc /\ pc # "-") =>
     /\ pc = "post" => SourceTags(doc) = MergedOrder(FALSE)
     /\ PostProcessed => SourceTags(pre) = MergedOrder(FALSE)
     /\ pc \in {"save", "done"} => PostProcessed
     /\ pc = "done" =>
          /\ out.saved
          /\ out.doc = doc
          /\ PageTags(out.doc) = NonBlankTags(pre)
          /\ \A p \in Range(get_pages(out.doc)) : LastProgram(out.doc, p) = StampProgram
          /\ NoDuplicates(get_pages(out.doc))

\* ARC run over a front matter with fully blank pages: the padding blank and
\* the blank front pages are gone, the vector pages are adjacent
C14_Witness ==
  /\ pc = "done"
  /\ run.arc
  /\ run.make_even
  /\ run.front = DocNested
  /\ run.k = 2
  /\ run.back = DocSvg
  /\ SourceTags(pre) = <<204, 205, 206, 902, 413, 423, 403>>
  /\ SourceTags(out.doc) = <<204, 413, 423, 403>>

(* ----------------------- claims on the fitting ------------------------ *)

Width(B) == FSub(B[3], B[1])

Height(B) == FSub(B[4], B[2])

CentreX(B) == FDiv(FAdd(B[1], B[3]), FInt(2))

CentreY(B) == FDiv(FAdd(B[2], B[4]), FInt(2))

\* the image of a point's coordinates under the transform s 0 0 s tx ty
MapX(r, x) == FAdd(FMul(r.s, x), r.tx)

MapY(r, y) == FAdd(FMul(r.s, y), r.ty)

Fitted == fit.state = "result"

\* C15: for boxes U and S of positive width and height, fit_with_anchor with
\* no scale cap returns the smaller of S.width/U.width and S.height/U.height in
\* Contain mode and the larger in Cover mode; with Center/Center anchors
\* tx = Sc.x - scale*Uc.x and ty = Sc.y - scale*Uc.y, the centre of U is mapped
\* onto the centre of S, and the transformed U is centred in S (inside S in
\* Contain mode).
C15_FitScaleAndCentre ==
  (Fitted /\ fit.s_max.inf) =>
     LET r == fit.r
         U == fit.U
         S == fit.S
         rx == FDiv(Width(S), Width(U))
         ry == FDiv(Height(S), Height(U))
     IN /\ fit.mode = "Contain" => r.s \in {rx, ry} /\ FLe(r.s, rx) /\ FLe(r.s, ry)
        /\ fit.mode = "Cover" => r.s \in {rx, ry} /\ FLe(rx, r.s) /\ FLe(ry, r.s)
        /\ (fit.ax = "Center" /\ fit.ay = "Center") =>
              /\ r.tx = FSub(CentreX(S), FMul(r.s, CentreX(U)))
              /\ r.ty = FSub(CentreY(S), FMul(r.s, CentreY(U)))
              /\ MapX(r, CentreX(U)) = CentreX(S)
              /\ MapY(r, CentreY(U)) = CentreY(S)
              /\ FSub(MapX(r, U[1]), S[1]) = FSub(S[3], MapX(r, U[3]))
              /\ FSub(MapY(r, U[2]), S[2]) = FSub(S[4], MapY(r, U[4]))
              /\ fit.mode = "Contain" =>
                    /\ FLe(S[1], MapX(r, U[1])) /\ FLe(MapX(r, U[3]), S[3])
                    /\ FLe(S[2], MapY(r, U[2])) /\ FLe(MapY(r, U[4]), S[4])

\* a 3x1 box fitted into a 2x2 box: the scale is 2/3, not a whole number
C15_Witness ==
  /\ Fitted
  /\ fit.s_max.inf
  /\ fit.mode = "Contain"
  /\ fit.ax = "Center" /\ fit.ay = "Center"
  /\ fit.U = <<FInt(0), FInt(0), FInt(3), FInt(1)>>
  /\ fit.S = <<FInt(1), FInt(1), FInt(3), FInt(3)>>
  /\ fit.r.s = Frac(2, 3)
  /\ fit.r.tx = FInt(1)
  /\ fit.r.ty = Frac(5, 3)

MarginFitted == op = "apply_inner_margin" /\ res = "ok"

\* the positions of the pages that had content before the operation
WithContent == {j \in DOMAIN get_pages(pre) : pre.objects[get_pages(pre)[j]].Contents.ids # <<>>}

\* the ink box of the j-th page before the operation and its safe box
InkBox(j) == AsBox(page_ink_bbox(pre, get_pages(pre)[j]))

SafeRect(j) == SafeBox(arg.book, j - 1)

\* the transform written into the content of the j-th page
Written(j) ==
  LET M == doc.objects[doc.objects[get_pages(doc)[j]].Contents.ids[1]].M
  IN [s |-> M[1], tx |-> M[2], ty |-> M[3]]

\* ink-box area divided by safe-rectangle area is below 0.12
Sparse(j) ==
  FLt(FDiv(FMul(Width(InkBox(j)), Height(InkBox(j))),
           FMul(Width(SafeRect(j)), Height(SafeRect(j)))),
      Frac(12, 100))

\* C16: in apply_inner_margin, for every page whose ink-box area divided by its
\* safe-rectangle area is below 0.12 the scale written into the transform is at
\* most 1.0 and the page is anchored bottom-centre; for every other page the
\* anchors are Center/Center and the scale is the uncapped Contain scale.
C16_SparsePolicy ==
  MarginFitted =>
    /\ Len(get_pages(doc)) = Len(get_pages(pre))
    /\ \A j \in WithContent :
         LET U == InkBox(j)
             S == SafeRect(j)
             r == Written(j)
             rx == FDiv(Width(S), Width(U))
             ry == FDiv(Height(S), Height(U))
         IN /\ MapX(r, CentreX(U)) = CentreX(S)
            /\ Sparse(j) =>
                 /\ FLe(r.s, FInt(1))
                 /\ r.s = FMin(FMin(rx, ry), FInt(1))
                 /\ MapY(r, U[2]) = S[2]
            /\ ~Sparse(j) =>
                 /\ r.s \in {rx, ry} /\ FLe(r.s, rx) /\ FLe(r.s, ry)
                 /\ MapY(r, CentreY(U)) = CentreY(S)

\* a small first page kept at scale 1 on the bottom edge of its safe rectangle,
\* where the fit would enlarge it, and a full second page scaled down
C16_Witness ==
  /\ MarginFitted
  /\ WithContent = {1, 2}
  /\ Sparse(1)
  /\ FLt(FInt(1), FDiv(Width(SafeRect(1)), Width(InkBox(1))))
  /\ FLt(FInt(1), FDiv(Height(SafeRect(1)), Height(InkBox(1))))
  /\ Written(1).s = FInt(1)
  /\ ~Sparse(2)
  /\ FLt(Written(2).s, FInt(1))

(* ---------------------- claims on the graph operations ---------------- *)

\* every page of the document gets a verdict from page_is_blank
AllJudged(d) ==
  \A p \in Range(get_pages(d)) : page_is_blank(d, p) \in {"true", "false"}

\* no content stream is listed by two pages
NoSharedContent(d) ==
  \A p, q \in Range(get_pages(d)) :
     p # q => Range(d.objects[p].Contents.ids) \cap Range(d.objects[q].Contents.ids) = {}

\* C17: remove_blank_pages visits the pages in descending order and deletes
\* exactly the pages page_is_blank classifies as blank: afterwards the page
\* sequence is the original one restricted to the non-blank pages, in the same
\* order; deleting a later page changes neither the verdict for nor the
\* identity of a page visited after it.
C17_RemovesExactlyTheBlank ==
  (op = "remove_blank_pages" /\ TreeWF(pre) /\ AllJudged(pre)) =>
     /\ res = "ok"
     /\ PageTags(doc) = NonBlankTags(pre)

RECURSIVE NearestBox(_, _)
\* the bounding box of the node itself, else of the nearest ancestor with one
NearestBox(d, id) ==
  IF id \notin DOMAIN d.objects THEN <<>>
  ELSE IF d.objects[id].MediaBox # <<>> THEN d.objects[id].MediaBox
       ELSE IF d.objects[id].Parent = 0 THEN <<>>
            ELSE NearestBox(d, d.objects[id].Parent)

\* a resource table as the value of a /Resources key
AsResources(r) == IF r.some THEN ResDict(r.d) ELSE NoRes

Stamped == op = "stamp_watermarks" /\ res = "ok"

\* the Form a page's own resource table registers under a name, 0 if none
Registered(d, p, name) ==
  IF d.objects[p].Resources.kind = "dict" /\ name \in DOMAIN d.objects[p].Resources.d.X
  THEN d.objects[p].Resources.d.X[name] ELSE 0

\* C18: after stamp_watermarks a page that had content streams has Contents =
\* [invocation of OLD_FORM, stamp stream], OLD_FORM holding the concatenation of
\* the original streams in order, the page's bounding box as BBox and the
\* page's effective resource table from before the operation; a page that had
\* no content has the stamp stream as its single Contents reference; F_ARC and
\* GS_ARC of every page name the same two objects, created by this call.
C18_StampStructure ==
  Stamped =>
    /\ get_pages(doc) = get_pages(pre)
    /\ \A p \in Range(get_pages(pre)) :
         LET old == pre.objects[p].Contents.ids
             new == doc.objects[p].Contents
             form == Registered(doc, p, "OLD_FORM")
         IN /\ old # <<>> =>
                 /\ new.kind = "array"
                 /\ Len(new.ids) = 2
                 /\ doc.objects[new.ids[1]].ops = DrawOldProgram
                 /\ doc.objects[new.ids[2]].ops = StampProgram
                 /\ form \in DOMAIN doc.objects \ DOMAIN pre.objects
                 /\ doc.objects[form].Subtype = "Form"
                 /\ doc.objects[form].ops = ConcatOps(pre, old)
                 /\ doc.objects[form].BBox = NearestBox(pre, p)
                 /\ doc.objects[form].Resources = AsResources(NearestResources(pre, p))
            /\ old = <<>> =>
                 /\ new.kind = "ref"
                 /\ doc.objects[new.ids[1]].ops = StampProgram
    /\ \E font, gs \in DOMAIN doc.objects \ DOMAIN pre.objects :
         /\ font # gs
         /\ \A p \in Range(get_pages(pre)) :
              /\ doc.objects[p].Resources.kind = "dict"
              /\ "F_ARC" \in DOMAIN doc.objects[p].Resources.d.F
              /\ doc.objects[p].Resources.d.F["F_ARC"] = font
              /\ "GS_ARC" \in DOMAIN doc.objects[p].Resources.d.G
              /\ doc.objects[p].Resources.d.G["GS_ARC"] = gs

\* the nested document was stamped: its first page reads its resources from an
\* ancestor and has content, its second page has none
C18_Witness ==
  /\ Stamped
  /\ pre = DocNested
  /\ pre.objects[4].Resources = NoRes
  /\ doc.objects[Registered(doc, 4, "OLD_FORM")].Resources
       = ResDict(XDict(("Fm" :> 9) @@ ("Im" :> 10)))
  /\ doc.objects[4].Contents.kind = "array"
  /\ doc.objects[5].Contents.kind = "ref"

\* the object a reference names, by its tag (0 for a dangling reference)
TagAt(d, id) == IF id \in DOMAIN d.objects THEN d.objects[id].tag ELSE 0

\* a resource table with every reference replaced by the tag of its target, so
\* that tables of documents numbered differently can be compared
TagTable(d, r) ==
  [some |-> r.some,
   X |-> [n \in DOMAIN r.d.X |-> TagAt(d, r.d.X[n])],
   F |-> [n \in DOMAIN r.d.F |-> TagAt(d, r.d.F[n])],
   G |-> [n \in DOMAIN r.d.G |-> TagAt(d, r.d.G[n])]]

\* the table a Form is evaluated with when it declares one
OwnTable(d, id) ==
  IF d.objects[id].Resources.kind = "none" THEN None
  ELSE obj_as_dict_owned(d.objects[id].Resources, d)

\* C19: apply_inner_margin wraps page content as the watermark path does: for
\* every page with content the unit CNT carries the page's effective resource
\* table (its own, else the nearest ancestor's), the page's resource table
\* is the minimal table {XObject: {CNT}} and its Contents the single
\* transform-and-invoke stream; pages without content are left unchanged.
C19_MarginWrapKeepsResources ==
  MarginFitted =>
    /\ Len(get_pages(doc)) = Len(get_pages(pre))
    /\ \A j \in DOMAIN get_pages(pre) :
         LET p == get_pages(pre)[j]
             q == get_pages(doc)[j]
             old == pre.objects[p].Contents.ids
             cnt == Registered(doc, q, "CNT")
         IN /\ j \in WithContent =>
                 /\ doc.objects[q].Resources.kind = "dict"
                 /\ doc.objects[q].Resources.d = [EmptyDict EXCEPT !.X = "CNT" :> cnt]
                 /\ doc.objects[q].Contents.kind = "ref"
                 /\ doc.objects[doc.objects[q].Contents.ids[1]].ops = DrawProgram
                 /\ cnt \in DOMAIN doc.objects
                 /\ doc.objects[cnt].Subtype = "Form"
                 /\ doc.objects[cnt].ops = ConcatOps(pre, old)
                 /\ TagTable(doc, OwnTable(doc, cnt)) = TagTable(pre, NearestResources(pre, p))
            /\ j \notin WithContent =>
                 /\ doc.objects[q].tag = pre.objects[p].tag
                 /\ doc.objects[q].Contents = NoContents
                 /\ doc.objects[q].Resources.kind = pre.objects[p].Resources.kind
                 /\ TagTable(doc, NearestResources(doc, q)) = TagTable(pre, NearestResources(pre, p))

\* C20: append_doc preserves each appended page's effective attributes: the
\* effective resource table and the effective bounding box (the local value,
\* else the one inherited from the nearest ancestor in the addition's tree) are
\* the same after the merge as before it, and page_is_blank gives the same
\* verdict for the page before and after the merge.
C20_AppendKeepsEffectiveAttributes ==
  (Appended /\ HasPagesRoot(pre) /\ TreeWF(arg.add)) =>
     /\ Len(get_pages(doc)) = Len(get_pages(pre)) + Len(get_pages(arg.add))
     /\ \A j \in DOMAIN get_pages(arg.add) :
          LET p == get_pages(arg.add)[j]
              q == get_pages(doc)[Len(get_pages(pre)) + j]
          IN /\ doc.objects[q].tag = arg.add.objects[p].tag
             /\ TagTable(doc, NearestResources(doc, q))
                  = TagTable(arg.add, NearestResources(arg.add, p))
             /\ NearestBox(doc, q) = NearestBox(arg.add, p)
             /\ page_is_blank(doc, q) = page_is_blank(arg.add, p)

====
